---- MODULE Spec2Model ----
(***************************************************************************)
(* SBA booking-request notification function.                              *)
(*                                                                         *)
(* Two variants of one handler: src/index.js sends through Gmail OAuth2    *)
(* (token minted per invocation), src/unnamed/part_000 sends through SMTP. *)
(* A request body is delivered to the handler either as a JSON text or as  *)
(* the pre-parsed object; both deliveries of one request are modelled side *)
(* by side as two invocations ("text" and "object") under one process      *)
(* environment and one outcome of each external call.                      *)
(*                                                                         *)
(* Texts are sequences of atoms: an atom is one special character or a     *)
(* run of characters none of which is special for JSON or HTML.            *)
(***************************************************************************)
EXTENDS Naturals, Sequences, FiniteSets

VARIABLES
  variant,      \* which handler is deployed
  env,          \* process.env
  request,      \* the request body that was delivered
  body,         \* req.body of each invocation
  pc,           \* where each invocation stands
  payload,      \* the handler's const payload
  sub,          \* the handler's consts fullName .. packageLabel
  missing,      \* the handler's const missing
  calls,        \* the external calls each invocation has made, in order
  mail,         \* the mailOptions each invocation handed to sendMail
  res,          \* the responses each invocation has produced
  tokenResult,  \* how getAccessToken() settles
  sendResult    \* how sendMail() settles

vars == <<variant, env, request, body, pc, payload, sub, missing, calls, mail,
          res, tokenResult, sendResult>>

(***************************************************************************)
(* JavaScript values                                                       *)
(***************************************************************************)
Q == "\""
BS == "\\"

Undefined == [kind |-> "undefined", text |-> <<>>, props |-> <<>>]
Null == [kind |-> "null", text |-> <<>>, props |-> <<>>]
Bool(b) == [kind |-> "bool", text |-> IF b THEN <<"true">> ELSE <<"false">>, props |-> <<>>]
Num(t) == [kind |-> "num", text |-> t, props |-> <<>>]
Str(t) == [kind |-> "str", text |-> t, props |-> <<>>]
Obj(p) == [kind |-> "obj", text |-> <<>>, props |-> p]
Arr(p) == [kind |-> "arr", text |-> <<>>, props |-> p]
\* an Error instance; text is its message
Err(t) == [kind |-> "error", text |-> t, props |-> <<>>]

EmptyObj == Obj(<<>>)

\* ToBoolean, as applied by !x, x || y, x && y and x ? a : b
Truthy(v) ==
  CASE v.kind \in {"undefined", "null"} -> FALSE
    [] v.kind = "bool" -> v.text = <<"true">>
    [] v.kind = "num" -> v.text # <<"0">>
    [] v.kind = "str" -> v.text # <<>>
    [] OTHER -> TRUE

\* a || b
Or(a, b) == IF Truthy(a) THEN a ELSE b

Nullish(v) == v.kind \in {"undefined", "null"}

\* typeof v === "object"
TypeofObject(v) == v.kind \in {"obj", "arr", "null", "error"}

\* typeof v === "string"
TypeofString(v) == v.kind = "str"

RECURSIVE LastProp(_, _, _)
LastProp(p, k, i) ==
  IF i = 0 THEN Undefined
  ELSE IF p[i][1] = k THEN p[i][2] ELSE LastProp(p, k, i - 1)

\* v.k for a v that is neither null nor undefined
GetProp(v, k) ==
  CASE v.kind \in {"obj", "arr"} -> LastProp(v.props, <<k>>, Len(v.props))
    [] v.kind = "error" /\ k = "message" -> Str(v.text)
    [] OTHER -> Undefined

\* v?.k
OptProp(v, k) == IF Nullish(v) THEN Undefined ELSE GetProp(v, k)

RECURSIVE JoinTexts(_, _)
JoinTexts(ts, sep) ==
  IF ts = <<>> THEN <<>>
  ELSE IF Len(ts) = 1 THEN ts[1]
  ELSE ts[1] \o sep \o JoinTexts(Tail(ts), sep)

RECURSIVE ToString(_)
RECURSIVE ElementTexts(_)
ElementTexts(p) ==
  IF p = <<>> THEN <<>>
  ELSE <<IF Nullish(p[1][2]) THEN <<>> ELSE ToString(p[1][2])>> \o ElementTexts(Tail(p))

\* String(v), and v inside a template literal
ToString(v) ==
  CASE v.kind \in {"str", "num", "bool"} -> v.text
    [] v.kind = "null" -> <<"null">>
    [] v.kind = "undefined" -> <<"undefined">>
    [] v.kind = "obj" -> <<"[object Object]">>
    [] v.kind = "arr" -> JoinTexts(ElementTexts(v.props), <<",">>)
    [] v.kind = "error" -> IF v.text = <<>> THEN <<"Error">> ELSE <<"Error: ">> \o v.text

(***************************************************************************)
(* JSON                                                                    *)
(***************************************************************************)
NumberAtoms == {"0", "49"}

RECURSIVE QuoteChars(_)
QuoteChars(t) ==
  IF t = <<>> THEN <<>>
  ELSE (IF t[1] \in {Q, BS} THEN <<BS, t[1]>> ELSE <<t[1]>>) \o QuoteChars(Tail(t))

RECURSIVE JSONStringify(_)
RECURSIVE StringifyProps(_, _)
StringifyProps(p, isArr) ==
  IF p = <<>> THEN <<>>
  ELSE LET item == IF isArr
                   THEN (IF p[1][2].kind = "undefined" THEN <<"null">> ELSE JSONStringify(p[1][2]))
                   ELSE <<Q>> \o QuoteChars(p[1][1]) \o <<Q, ":">> \o JSONStringify(p[1][2])
       IN <<item>> \o StringifyProps(Tail(p), isArr)

DefinedProps(p) == SelectSeq(p, LAMBDA e : e[2].kind # "undefined")

\* JSON.stringify(v) for a v other than undefined
JSONStringify(v) ==
  CASE v.kind = "str" -> <<Q>> \o QuoteChars(v.text) \o <<Q>>
    [] v.kind \in {"num", "bool"} -> v.text
    [] v.kind = "null" -> <<"null">>
    [] v.kind = "obj" -> <<"{">> \o JoinTexts(StringifyProps(DefinedProps(v.props), FALSE), <<",">>) \o <<"}">>
    [] v.kind = "arr" -> <<"[">> \o JoinTexts(StringifyProps(v.props, TRUE), <<",">>) \o <<"]">>
    [] v.kind = "error" -> <<"{", "}">>

ParseFail == [ok |-> FALSE, v |-> Undefined, next |-> 0]
Parsed(v, n) == [ok |-> TRUE, v |-> v, next |-> n]

\* the string literal whose opening quote is before position i
RECURSIVE ScanString(_, _, _)
ScanString(t, i, acc) ==
  IF i > Len(t) THEN ParseFail
  ELSE IF t[i] = Q THEN Parsed(Str(acc), i + 1)
  ELSE IF t[i] = BS
       THEN IF i + 1 <= Len(t) /\ t[i + 1] \in {Q, BS, "/"}
            THEN ScanString(t, i + 2, Append(acc, t[i + 1]))
            ELSE ParseFail
  ELSE ScanString(t, i + 1, Append(acc, t[i]))

RECURSIVE HasKey(_, _)
HasKey(p, k) == p # <<>> /\ (p[1][1] = k \/ HasKey(Tail(p), k))

\* defining property k of an object literal: a repeated key keeps its place
\* and takes the later value
SetProp(p, k, v) ==
  IF HasKey(p, k)
  THEN [i \in 1..Len(p) |-> IF p[i][1] = k THEN <<k, v>> ELSE p[i]]
  ELSE Append(p, <<k, v>>)

IndexKey(n) == <<CASE n = 0 -> "0" [] n = 1 -> "1" [] n = 2 -> "2" [] OTHER -> "n">>

RECURSIVE ParseValue(_, _)
RECURSIVE ParseMembers(_, _, _)
RECURSIVE ParseElements(_, _, _)

ParseMembers(t, i, acc) ==
  IF i > Len(t) \/ t[i] # Q THEN ParseFail
  ELSE LET k == ScanString(t, i + 1, <<>>) IN
    IF ~k.ok \/ k.next > Len(t) \/ t[k.next] # ":" THEN ParseFail
    ELSE LET v == ParseValue(t, k.next + 1) IN
      IF ~v.ok \/ v.next > Len(t) THEN ParseFail
      ELSE IF t[v.next] = "," THEN ParseMembers(t, v.next + 1, SetProp(acc, k.v.text, v.v))
      ELSE IF t[v.next] = "}" THEN Parsed(Obj(SetProp(acc, k.v.text, v.v)), v.next + 1)
      ELSE ParseFail

ParseElements(t, i, acc) ==
  LET v == ParseValue(t, i) IN
    IF ~v.ok \/ v.next > Len(t) THEN ParseFail
    ELSE IF t[v.next] = "," THEN ParseElements(t, v.next + 1, Append(acc, <<IndexKey(Len(acc)), v.v>>))
    ELSE IF t[v.next] = "]" THEN Parsed(Arr(Append(acc, <<IndexKey(Len(acc)), v.v>>)), v.next + 1)
    ELSE ParseFail

ParseValue(t, i) ==
  IF i > Len(t) THEN ParseFail
  ELSE CASE t[i] = Q -> ScanString(t, i + 1, <<>>)
         [] t[i] = "{" -> IF i + 1 <= Len(t) /\ t[i + 1] = "}"
                          THEN Parsed(EmptyObj, i + 2)
                          ELSE ParseMembers(t, i + 1, <<>>)
         [] t[i] = "[" -> IF i + 1 <= Len(t) /\ t[i + 1] = "]"
                          THEN Parsed(Arr(<<>>), i + 2)
                          ELSE ParseElements(t, i + 1, <<>>)
         [] t[i] \in NumberAtoms -> Parsed(Num(<<t[i]>>), i + 1)
         [] t[i] = "true" -> Parsed(Bool(TRUE), i + 1)
         [] t[i] = "false" -> Parsed(Bool(FALSE), i + 1)
         [] t[i] = "null" -> Parsed(Null, i + 1)
         [] OTHER -> ParseFail

\* JSON.parse(t): ok is FALSE where it throws SyntaxError
JSONParse(t) ==
  LET r == ParseValue(t, 1) IN
    IF r.ok /\ r.next = Len(t) + 1 THEN [ok |-> TRUE, v |-> r.v] ELSE [ok |-> FALSE, v |-> Undefined]

(***************************************************************************)
(* escapeHtml                                                              *)
(***************************************************************************)
RECURSIVE ReplaceAll(_, _, _)
ReplaceAll(t, ch, rep) ==
  IF t = <<>> THEN <<>>
  ELSE (IF t[1] = ch THEN rep ELSE <<t[1]>>) \o ReplaceAll(Tail(t), ch, rep)

\* escapeHtml with the ampersand replaced last
escapeHtmlAmpLast(input) ==
  LET s0 == ToString(IF Nullish(input) THEN Str(<<>>) ELSE input)
      s1 == ReplaceAll(s0, "<", <<"&", "lt;">>)
      s2 == ReplaceAll(s1, ">", <<"&", "gt;">>)
      s3 == ReplaceAll(s2, Q, <<"&", "quot;">>)
      s4 == ReplaceAll(s3, "'", <<"&", "#039;">>)
  IN ReplaceAll(s4, "&", <<"&", "amp;">>)

escapeHtml(input) ==
  LET s0 == ToString(IF Nullish(input) THEN Str(<<>>) ELSE input)
      s1 == ReplaceAll(s0, "&", <<"&", "amp;">>)
      s2 == ReplaceAll(s1, "<", <<"&", "lt;">>)
      s3 == ReplaceAll(s2, ">", <<"&", "gt;">>)
      s4 == ReplaceAll(s3, Q, <<"&", "quot;">>)
  IN ReplaceAll(s4, "'", <<"&", "#039;">>)

(***************************************************************************)
(* The handler's synchronous steps                                         *)
(***************************************************************************)
T(a) == Str(<<a>>)
Prop(k, v) == <<<<k>>, v>>

\* ParseBody that reads a string body as empty without decoding it
ParseBodyNoDecode(b) == IF TypeofString(b) THEN EmptyObj ELSE b

\* ParseBody whose catch leaves the undecodable string in body
ParseBodyKeepsText(b) ==
  IF TypeofString(b)
  THEN LET r == JSONParse(b.text) IN IF r.ok THEN r.v ELSE b
  ELSE b

\* let body = req.body; if (typeof body === "string") { try JSON.parse } catch { {} }
ParseBody(b) ==
  IF TypeofString(b)
  THEN LET r == JSONParse(b.text) IN IF r.ok THEN r.v ELSE EmptyObj
  ELSE b

\* SelectPayload without the typeof test
SelectPayloadAnyTruthy(b) ==
  LET inner == OptProp(b, "payload") IN
    IF Truthy(inner) THEN inner ELSE Or(b, EmptyObj)

\* body?.payload && typeof body.payload === "object" ? body.payload : body || {}
SelectPayload(b) ==
  LET inner == OptProp(b, "payload") IN
    IF Truthy(inner) /\ TypeofObject(inner) THEN inner ELSE Or(b, EmptyObj)

FieldNames == {"fullName", "userEmail", "phone", "experience", "goals", "message",
               "cycle", "cycleLabel", "pkg", "packageLabel"}

Unknown == T("Unknown")

NoFields == [f \in FieldNames |-> Undefined]

\* ExtractFields whose labels fall back to the default, not to cycle or package
ExtractFieldsDefaultLabel(p) ==
  [fullName |-> Or(Or(GetProp(p, "fullName"), GetProp(p, "name")), Unknown),
   userEmail |-> Or(GetProp(p, "email"), Unknown),
   phone |-> Or(Or(GetProp(p, "phone"), GetProp(p, "whatsapp")), Unknown),
   experience |-> Or(GetProp(p, "experience"), Unknown),
   goals |-> Or(GetProp(p, "goals"), Str(<<>>)),
   message |-> Or(GetProp(p, "message"), Str(<<>>)),
   cycle |-> Or(GetProp(p, "cycle"), Unknown),
   cycleLabel |-> Or(GetProp(p, "cycleLabel"), Unknown),
   pkg |-> Or(GetProp(p, "package"), Unknown),
   packageLabel |-> Or(GetProp(p, "packageLabel"), Unknown)]

ExtractFields(p) ==
  LET cycle == Or(GetProp(p, "cycle"), Unknown)
      pkg == Or(GetProp(p, "package"), Unknown)
  IN [fullName |-> Or(Or(GetProp(p, "fullName"), GetProp(p, "name")), Unknown),
      userEmail |-> Or(GetProp(p, "email"), Unknown),
      phone |-> Or(Or(GetProp(p, "phone"), GetProp(p, "whatsapp")), Unknown),
      experience |-> Or(GetProp(p, "experience"), Unknown),
      goals |-> Or(GetProp(p, "goals"), Str(<<>>)),
      message |-> Or(GetProp(p, "message"), Str(<<>>)),
      cycle |-> cycle,
      cycleLabel |-> Or(GetProp(p, "cycleLabel"), cycle),
      pkg |-> pkg,
      packageLabel |-> Or(GetProp(p, "packageLabel"), pkg)]

Push(cond, name, m) == IF cond THEN Append(m, <<name>>) ELSE m

\* MissingFields that stops at the first field it finds missing
MissingFieldsFirstOnly(p) ==
  IF ~Truthy(GetProp(p, "fullName")) /\ ~Truthy(GetProp(p, "name")) THEN <<<<"fullName">>>>
  ELSE IF ~Truthy(GetProp(p, "email")) THEN <<<<"email">>>>
  ELSE IF ~Truthy(GetProp(p, "phone")) /\ ~Truthy(GetProp(p, "whatsapp")) THEN <<<<"phone">>>>
  ELSE IF ~Truthy(GetProp(p, "cycle")) /\ ~Truthy(GetProp(p, "cycleLabel")) THEN <<<<"cycle">>>>
  ELSE IF ~Truthy(GetProp(p, "package")) /\ ~Truthy(GetProp(p, "packageLabel")) THEN <<<<"package">>>>
  ELSE <<>>

MissingFields(p) ==
  LET m1 == Push(~Truthy(GetProp(p, "fullName")) /\ ~Truthy(GetProp(p, "name")), "fullName", <<>>)
      m2 == Push(~Truthy(GetProp(p, "email")), "email", m1)
      m3 == Push(~Truthy(GetProp(p, "phone")) /\ ~Truthy(GetProp(p, "whatsapp")), "phone", m2)
      m4 == Push(~Truthy(GetProp(p, "cycle")) /\ ~Truthy(GetProp(p, "cycleLabel")), "cycle", m3)
  IN Push(~Truthy(GetProp(p, "package")) /\ ~Truthy(GetProp(p, "packageLabel")), "package", m4)

\* res.json(obj, status)
ResJson(obj, status) == [status |-> status, json |-> obj]

Failure(text) == Obj(<<Prop("ok", Bool(FALSE)), Prop("error", text)>>)

\* ValidationError that leaves the status argument out: res.json answers 200
ValidationErrorNoStatus(m) ==
  ResJson(Failure(Str(<<"Missing required fields: ">> \o JoinTexts(m, <<", ">>))), 200)

ValidationError(m) ==
  ResJson(Failure(Str(<<"Missing required fields: ">> \o JoinTexts(m, <<", ">>))), 400)

EnvError ==
  ResJson(Failure(T("Missing Gmail OAuth env vars. Required: GOOGLE_CLIENT_ID, GOOGLE_CLIENT_SECRET, GOOGLE_REFRESH_TOKEN")), 500)

\* EnvMissing that fires only when all three secrets are missing
EnvMissingAll(e) ==
  /\ ~Truthy(e["GOOGLE_CLIENT_ID"])
  /\ ~Truthy(e["GOOGLE_CLIENT_SECRET"])
  /\ ~Truthy(e["GOOGLE_REFRESH_TOKEN"])

EnvMissing(e) ==
  \/ ~Truthy(e["GOOGLE_CLIENT_ID"])
  \/ ~Truthy(e["GOOGLE_CLIENT_SECRET"])
  \/ ~Truthy(e["GOOGLE_REFRESH_TOKEN"])

\* AfterValidation with the env check ahead of the validation return
AfterValidationEnvFirst(v, e, m) ==
  IF v = "oauth2" /\ EnvMissing(e) THEN "noenv"
  ELSE IF Len(m) # 0 THEN "reject"
  ELSE IF v = "oauth2" THEN "mint"
  ELSE "send"

\* AfterValidation that attempts the send without minting a token
AfterValidationSkipsMint(v, e, m) ==
  IF Len(m) # 0 THEN "reject"
  ELSE IF v = "oauth2" /\ EnvMissing(e) THEN "noenv"
  ELSE "send"

\* where the handler goes once the fields are read: the validation return,
\* the env return (OAuth2), or on to the first external call
AfterValidation(v, e, m) ==
  IF Len(m) # 0 THEN "reject"
  ELSE IF v = "oauth2" THEN (IF EnvMissing(e) THEN "noenv" ELSE "mint")
  ELSE "send"

MintError == ResJson(Failure(T("Failed to mint Gmail access token.")), 500)

\* accessToken = tokenResponse?.token || ""
AccessToken(tokenResponse) == Or(OptProp(tokenResponse, "token"), Str(<<>>))

\* MintFailed without the empty-token throw
MintFailedOnlyOnThrow(o) == o.state # "resolved"

\* whether the mint block ends in its catch: getAccessToken() rejected, or
\* the token it gave is empty
MintFailed(o) == ~(o.state = "resolved" /\ Truthy(AccessToken(o.v)))

\* new Date().toLocaleString("en-GB", { timeZone: "Europe/Berlin" })
Now == T("06/11/2026, 10:00:00")

Html(f) ==
  [cycleLabel |-> escapeHtml(f.cycleLabel),
   packageLabel |-> escapeHtml(f.packageLabel),
   fullName |-> escapeHtml(f.fullName),
   userEmail |-> escapeHtml(f.userEmail),
   phone |-> escapeHtml(f.phone),
   experience |-> escapeHtml(f.experience),
   notes |-> Truthy(Or(f.goals, f.message)),
   goals |-> IF Truthy(Or(f.goals, f.message)) /\ Truthy(f.goals) THEN <<escapeHtml(f.goals)>> ELSE <<>>,
   message |-> IF Truthy(Or(f.goals, f.message)) /\ Truthy(f.message) THEN <<escapeHtml(f.message)>> ELSE <<>>,
   now |-> escapeHtml(Now)]

\* the atom " -- " stands for the em dash between the parts
Subject(f) ==
  <<"SBA Booking Request", " -- ">> \o ToString(f.fullName) \o <<" -- ">> \o ToString(f.cycleLabel)

DefaultAddress == T("silvaboxingacademy@gmail.com")

Sender(v, e) ==
  IF v = "oauth2" THEN Or(e["GMAIL_SENDER"], DefaultAddress) ELSE e["SMTP_USER"]

MailOptions(v, e, f) ==
  [from |-> <<Q, "SBA Website", Q, " ", "<">> \o ToString(Sender(v, e)) \o <<">">>,
   to |-> Or(e["SBA_ADMIN_EMAIL"], DefaultAddress),
   replyTo |-> IF f.userEmail # Unknown THEN f.userEmail ELSE Undefined,
   subject |-> Subject(f),
   html |-> Html(f)]

Success == ResJson(Obj(<<Prop("ok", Bool(TRUE))>>), 200)

\* ErrorText that always takes the string form of the thrown value
ErrorTextStringForm(err) == Str(ToString(err))

\* err?.message || String(err)
ErrorText(err) == Or(OptProp(err, "message"), Str(ToString(err)))

SendError(err) == ResJson(Failure(ErrorText(err)), 500)

(***************************************************************************)
(* Deployments, requests and the outcomes of the external calls            *)
(***************************************************************************)
Variants == {"oauth2", "smtp"}

Lanes == {"text", "object"}

EnvNames == {"GOOGLE_CLIENT_ID", "GOOGLE_CLIENT_SECRET", "GOOGLE_REFRESH_TOKEN",
             "GMAIL_SENDER", "SBA_ADMIN_EMAIL", "SMTP_HOST", "SMTP_USER", "SMTP_PASS"}

RequiredEnv(v) ==
  IF v = "oauth2"
  THEN {"GOOGLE_CLIENT_ID", "GOOGLE_CLIENT_SECRET", "GOOGLE_REFRESH_TOKEN"}
  ELSE {"SMTP_HOST", "SMTP_USER", "SMTP_PASS"}

Envs(v) ==
  {[n \in EnvNames |-> IF n \in S THEN T("configured") ELSE Undefined] : S \in SUBSET RequiredEnv(v)}

KeyOrder == <<"fullName", "name", "email", "phone", "whatsapp", "cycle", "cycleLabel",
              "package", "packageLabel", "experience", "goals", "message">>

\* the keys the validation reads
RequiredKeys == {"fullName", "name", "email", "phone", "whatsapp", "cycle", "cycleLabel",
                 "package", "packageLabel"}

OptionalKeys == {"experience", "goals", "message"}

\* the most of the validated keys a request object carries
MaxFields == 6

SampleValue(k) ==
  CASE k = "fullName" -> Str(<<"<", "b", ">", "Al">>)
    [] k = "name" -> Str(<<"A", "&", "B">>)
    [] k = "email" -> Str(<<"al", Q, "@x.de">>)
    [] k = "phone" -> Str(<<"+49", "'", "1">>)
    [] k = "whatsapp" -> Num(<<"49">>)
    [] k = "cycle" -> T("cycle-1")
    [] k = "cycleLabel" -> Str(<<"Next ", "&", "lt;", " Feb">>)
    [] k = "package" -> T("p3")
    [] k = "packageLabel" -> Str(<<"3 Classes ", BS, ">", "50">>)
    [] k = "experience" -> T("Novice")
    [] k = "goals" -> Str(<<"<", "&", ">", Q, "'">>)
    [] k = "message" -> Str(<<"a", "&", "amp;", "b">>)

\* keys that may carry a value that is there and falsy
FalsyKeys == {"fullName", "email", "phone", "cycleLabel"}

FalsyValue(k) ==
  CASE k = "fullName" -> Bool(FALSE)
    [] k = "email" -> Str(<<>>)
    [] k = "phone" -> Num(<<"0">>)
    [] k = "cycleLabel" -> Null

Props(S, fk) ==
  LET ks == SelectSeq(KeyOrder, LAMBDA k : k \in S)
  IN [i \in 1..Len(ks) |-> Prop(ks[i], IF ks[i] = fk THEN FalsyValue(ks[i]) ELSE SampleValue(ks[i]))]

PrimaryFive == {"fullName", "email", "phone", "cycle", "package"}
AlternateFive == {"name", "email", "whatsapp", "cycleLabel", "packageLabel"}

\* request objects over the validated keys
DirectBodies ==
  {Obj(Props(S, "none")) : S \in {x \in SUBSET RequiredKeys : Cardinality(x) <= MaxFields}}

\* complete requests with any of the optional keys
OptionalBodies ==
  {Obj(Props(PrimaryFive \cup X, "none")) : X \in SUBSET OptionalKeys}

\* requests in which one key is there with a falsy value
FalsyBodies ==
  {Obj(Props(S \cup {fk}, fk)) : <<S, fk>> \in {PrimaryFive, AlternateFive, PrimaryFive \cup AlternateFive} \X FalsyKeys}

\* values of a "payload" field
EnvelopeValues ==
  {T("x"), Str(<<>>), Null, Num(<<"49">>), Arr(<<>>), EmptyObj,
   Obj(Props(AlternateFive, "none")), Obj(Props({"name", "goals"}, "none"))}

EnvelopeBodies ==
  {Obj(Append(Props(S, "none"), Prop("payload", e))) :
     <<S, e>> \in {{}, {"email"}, PrimaryFive} \X EnvelopeValues}

ScalarBodies == {Undefined, Null, Num(<<"0">>), Num(<<"49">>), Bool(FALSE), Bool(TRUE), Arr(<<>>)}

\* req.body given as a string that no JSON.stringify of a request object made
RawTexts ==
  {Str(<<>>), T("hello"), T("{"), Str(<<"{", "}", "}">>),
   Str(<<"{", Q, "email", Q, ":", Q, "al@x.de", Q>>),
   Str(<<"{", "email", ":", Q, "al@x.de", Q, "}">>),
   Str(<<"{", Q, "email", Q, ":", Q, "al@x.de", Q, ",", "}">>),
   Str(<<Q, "a", BS, "x", Q>>),
   Str(<<Q, "abc", Q>>), Str(<<Q, Q>>),
   Str(<<"{", Q, "email", Q, ":", Q, "a", Q, ",", Q, "email", Q, ":", Q, Q, "}">>)}

Bodies ==
  DirectBodies \cup OptionalBodies \cup FalsyBodies \cup EnvelopeBodies \cup ScalarBodies \cup RawTexts

Pending == [state |-> "pending", v |-> Undefined]
Resolved(v) == [state |-> "resolved", v |-> v]
Rejected(v) == [state |-> "rejected", v |-> v]

TokenOutcomes ==
  {Resolved(Obj(<<Prop("token", T("ya29.token"))>>)),
   Resolved(Obj(<<Prop("token", Null)>>)),
   Resolved(Null),
   Rejected(Err(<<"invalid_grant">>))}

SendOutcomes ==
  {Resolved(Obj(<<Prop("messageId", T("<id@x>"))>>)),
   Rejected(Err(<<"Invalid login: 535">>)),
   Rejected(Err(<<>>)),
   Rejected(T("socket closed"))}

(***************************************************************************)
(* The state machine                                                       *)
(***************************************************************************)
Init ==
  /\ variant \in Variants
  /\ env \in Envs(variant)
  /\ request = Undefined
  /\ body = [l \in Lanes |-> Undefined]
  /\ pc = [l \in Lanes |-> "idle"]
  /\ payload = [l \in Lanes |-> Undefined]
  /\ sub = [l \in Lanes |-> NoFields]
  /\ missing = [l \in Lanes |-> <<>>]
  /\ calls = [l \in Lanes |-> <<>>]
  /\ mail = [l \in Lanes |-> <<>>]
  /\ res = [l \in Lanes |-> <<>>]
  /\ tokenResult = Pending
  /\ sendResult = Pending

\* the platform hands the request to the function: as the JSON text of b, and
\* as b itself; a b that is already a string, or is no value, goes one way only
Deliver ==
  /\ \A l \in Lanes : pc[l] = "idle"
  /\ \E b \in Bodies :
       /\ request' = b
       /\ body' = [text |-> IF TypeofString(b) THEN b
                            ELSE IF b = Undefined THEN Undefined
                            ELSE Str(JSONStringify(b)),
                   object |-> IF TypeofString(b) THEN Undefined ELSE b]
       /\ pc' = [text |-> IF b = Undefined THEN "off" ELSE "start",
                 object |-> IF TypeofString(b) THEN "off" ELSE "start"]
  /\ UNCHANGED <<variant, env, payload, sub, missing, calls, mail, res, tokenResult, sendResult>>

\* from the entry of the handler to its first await, or to its return
Handle(l) ==
  /\ pc[l] = "start"
  /\ LET p == SelectPayload(ParseBody(body[l]))
         f == ExtractFields(p)
         m == MissingFields(p)
         to == AfterValidation(variant, env, m)
     IN /\ payload' = [payload EXCEPT ![l] = p]
        /\ sub' = [sub EXCEPT ![l] = f]
        /\ missing' = [missing EXCEPT ![l] = m]
        /\ res' = [res EXCEPT ![l] = CASE to = "reject" -> Append(@, ValidationError(m))
                                       [] to = "noenv" -> Append(@, EnvError)
                                       [] OTHER -> @]
        /\ calls' = [calls EXCEPT ![l] = CASE to = "mint" -> Append(@, "getAccessToken")
                                           [] to = "send" -> Append(@, "sendMail")
                                           [] OTHER -> @]
        /\ mail' = [mail EXCEPT ![l] = IF to = "send" THEN Append(@, MailOptions(variant, env, f)) ELSE @]
        /\ pc' = [pc EXCEPT ![l] = CASE to = "mint" -> "awaitToken"
                                     [] to = "send" -> "awaitSend"
                                     [] OTHER -> "done"]
  /\ UNCHANGED <<variant, env, request, body, tokenResult, sendResult>>

\* getAccessToken() settles: to the catch of the mint block, or on to sendMail
TokenSettles(l) ==
  /\ pc[l] = "awaitToken"
  /\ \E o \in TokenOutcomes :
       /\ tokenResult \in {Pending, o}
       /\ tokenResult' = o
       /\ IF MintFailed(o)
          THEN /\ res' = [res EXCEPT ![l] = Append(@, MintError)]
               /\ pc' = [pc EXCEPT ![l] = "done"]
               /\ UNCHANGED <<calls, mail>>
          ELSE /\ calls' = [calls EXCEPT ![l] = Append(@, "sendMail")]
               /\ mail' = [mail EXCEPT ![l] = Append(@, MailOptions(variant, env, sub[l]))]
               /\ pc' = [pc EXCEPT ![l] = "awaitSend"]
               /\ UNCHANGED res
  /\ UNCHANGED <<variant, env, request, body, payload, sub, missing, sendResult>>

\* sendMail() settles: to the return after it, or to the outer catch
SendSettles(l) ==
  /\ pc[l] = "awaitSend"
  /\ \E o \in SendOutcomes :
       /\ sendResult \in {Pending, o}
       /\ sendResult' = o
       /\ res' = [res EXCEPT ![l] = Append(@, IF o.state = "resolved" THEN Success ELSE SendError(o.v))]
       /\ pc' = [pc EXCEPT ![l] = "done"]
  /\ UNCHANGED <<variant, env, request, body, payload, sub, missing, calls, mail, tokenResult>>

Next ==
  \/ Deliver
  \/ \E l \in Lanes : Handle(l)
  \/ \E l \in Lanes : TokenSettles(l)
  \/ \E l \in Lanes : SendSettles(l)

Spec == Init /\ [][Next]_vars

\* the positions at which an invocation is running or awaiting a call
Running == {"start", "awaitToken", "awaitSend"}

\* invocation l moves on: the step Handle(l), TokenSettles(l) or SendSettles(l)
\* takes, seen in pc alone
Proceeds(l) ==
  /\ pc[l] \in Running
  /\ \E q \in {"awaitToken", "awaitSend", "done"} : pc' = [pc EXCEPT ![l] = q]

\* An invocation the runtime has started runs to its next await or return, and
\* the external calls it awaits complete: an invocation does not stay at a
\* running position for ever.
FairSpec == Spec /\ \A l \in Lanes : WF_pc(Proceeds(l))

(***************************************************************************)
(* Properties                                                              *)
(***************************************************************************)
\* an invocation that has run the handler up to its first await or return
Handled(l) == pc[l] \in {"awaitToken", "awaitSend", "done"}

Present(p, k) == Truthy(GetProp(p, k))

\* the presence test of each required field
Lacks(p, n) ==
  CASE n = "fullName" -> ~Present(p, "fullName") /\ ~Present(p, "name")
    [] n = "email" -> ~Present(p, "email")
    [] n = "phone" -> ~Present(p, "phone") /\ ~Present(p, "whatsapp")
    [] n = "cycle" -> ~Present(p, "cycle") /\ ~Present(p, "cycleLabel")
    [] n = "package" -> ~Present(p, "package") /\ ~Present(p, "packageLabel")

RequiredNames == <<"fullName", "email", "phone", "cycle", "package">>

Lacking(p) == SelectSeq(RequiredNames, LAMBDA n : Lacks(p, n))

RECURSIVE Listed(_)
Listed(names) ==
  IF Len(names) = 1 THEN <<names[1]>> ELSE <<names[1], ", ">> \o Listed(Tail(names))

FailureBody(text) == Obj(<<<<<<"ok">>, Bool(FALSE)>>, <<<<"error">>, Str(text)>>>>)

Response(status, json) == [status |-> status, json |-> json]

\* C1: in both variants the missing list is the subsequence of fullName,
\* email, phone, cycle, package whose presence test fails, in that order, and
\* a non-empty list is answered 400 with "Missing required fields: " and the
\* names joined by ", "
C1_MissingFieldsReported ==
  \A l \in Lanes : Handled(l) =>
    /\ missing[l] = [i \in 1..Len(Lacking(payload[l])) |-> <<Lacking(payload[l])[i]>>]
    /\ Lacking(payload[l]) # <<>> =>
         res[l] = <<Response(400, FailureBody(<<"Missing required fields: ">> \o Listed(Lacking(payload[l]))))>>

C1_Witness ==
  /\ variant = "smtp"
  /\ pc["text"] = "done"
  /\ Lacking(payload["text"]) = <<"fullName", "phone", "package">>
  /\ Present(payload["text"], "cycleLabel")
  /\ Len(res["text"]) = 1

\* C2: in both variants an invocation whose payload fails validation makes no
\* token exchange and no send attempt and answers 400, whatever the
\* configuration is, the OAuth2 secrets missing included
C2_ValidationFirst ==
  \A l \in Lanes : (Handled(l) /\ Lacking(payload[l]) # <<>>) =>
    /\ pc[l] = "done"
    /\ calls[l] = <<>>
    /\ mail[l] = <<>>
    /\ Len(res[l]) = 1
    /\ res[l][1].status = 400

C2_Witness ==
  /\ variant = "oauth2"
  /\ \A n \in RequiredEnv("oauth2") : env[n] = Undefined
  /\ pc["object"] = "done"
  /\ Lacking(payload["object"]) = <<"email">>
  /\ res["object"][1].status = 400

SendAttempted(l) == \E i \in 1..Len(calls[l]) : calls[l][i] = "sendMail"

TokenAttempted(l) == \E i \in 1..Len(calls[l]) : calls[l][i] = "getAccessToken"

SuccessBody == Obj(<<<<<<"ok">>, Bool(TRUE)>>>>)

HasMessage(e) == e.kind = "error" /\ e.text # <<>>

\* C3 as stated: the response is decided by the one send attempt: {ok: true}
\* with 200 when it succeeds, {ok: false, error: m} with 500 when it fails with
\* message m, and no 200 without a successful send
C3_AsStated ==
  \A l \in Lanes :
    /\ (pc[l] = "done" /\ SendAttempted(l)) =>
         /\ Len(mail[l]) = 1
         /\ sendResult.state = "resolved" => res[l] = <<Response(200, SuccessBody)>>
         /\ (sendResult.state = "rejected" /\ sendResult.v.kind = "error") =>
              res[l] = <<Response(500, FailureBody(sendResult.v.text))>>
    /\ (\E i \in 1..Len(res[l]) : res[l][i].status = 200) =>
         (SendAttempted(l) /\ sendResult.state = "resolved")

\* C3, amended: as stated when the failure carries a non-empty message m; a
\* failure with an empty message, or a thrown value that has none, is
\* reported by the string form of the thrown value
C3_SendDecidesResponse ==
  \A l \in Lanes :
    /\ (pc[l] = "done" /\ SendAttempted(l)) =>
         /\ Len(mail[l]) = 1
         /\ sendResult.state = "resolved" => res[l] = <<Response(200, SuccessBody)>>
         /\ (sendResult.state = "rejected" /\ HasMessage(sendResult.v)) =>
              res[l] = <<Response(500, FailureBody(sendResult.v.text))>>
         /\ (sendResult.state = "rejected" /\ ~HasMessage(sendResult.v)) =>
              res[l] = <<Response(500, FailureBody(ToString(sendResult.v)))>>
    /\ (\E i \in 1..Len(res[l]) : res[l][i].status = 200) =>
         (SendAttempted(l) /\ sendResult.state = "resolved")

C3_Witness ==
  /\ pc["text"] = "done"
  /\ pc["object"] = "done"
  /\ variant = "oauth2"
  /\ SendAttempted("text")
  /\ sendResult = Rejected(Err(<<"Invalid login: 535">>))
  /\ res["text"][1].status = 500

\* C4: in the OAuth2 variant, when the token exchange throws or gives an empty
\* token the invocation answers 500 with "Failed to mint Gmail access token."
\* and makes no send attempt
C4_MintFailureStops ==
  \A l \in Lanes :
    (/\ TokenAttempted(l)
     /\ pc[l] # "awaitToken"
     /\ \/ tokenResult.state = "rejected"
        \/ tokenResult.state = "resolved" /\ ~Truthy(OptProp(tokenResult.v, "token"))) =>
      /\ pc[l] = "done"
      /\ res[l] = <<Response(500, FailureBody(<<"Failed to mint Gmail access token.">>))>>
      /\ ~SendAttempted(l)
      /\ mail[l] = <<>>

C4_Witness ==
  /\ variant = "oauth2"
  /\ pc["object"] = "done"
  /\ TokenAttempted("object")
  /\ tokenResult = Resolved(Obj(<<<<<<"token">>, Null>>>>))
  /\ Len(res["object"]) = 1

\* C5: in the OAuth2 variant a request that passes validation while any of
\* the three secrets is missing is answered 500 with the fixed error, with
\* no token exchange and no send attempt
C5_MissingSecretsStop ==
  \A l \in Lanes :
    (/\ variant = "oauth2"
     /\ Handled(l)
     /\ Lacking(payload[l]) = <<>>
     /\ \E n \in {"GOOGLE_CLIENT_ID", "GOOGLE_CLIENT_SECRET", "GOOGLE_REFRESH_TOKEN"} : ~Truthy(env[n])) =>
      /\ pc[l] = "done"
      /\ res[l] = <<Response(500, FailureBody(<<"Missing Gmail OAuth env vars. Required: GOOGLE_CLIENT_ID, GOOGLE_CLIENT_SECRET, GOOGLE_REFRESH_TOKEN">>))>>
      /\ calls[l] = <<>>
      /\ mail[l] = <<>>

C5_Witness ==
  /\ variant = "oauth2"
  /\ pc["text"] = "done"
  /\ Lacking(payload["text"]) = <<>>
  /\ Truthy(env["GOOGLE_CLIENT_ID"])
  /\ Truthy(env["GOOGLE_CLIENT_SECRET"])
  /\ ~Truthy(env["GOOGLE_REFRESH_TOKEN"])
  /\ res["text"][1].status = 500

EntityTails == {"amp;", "lt;", "gt;", "quot;", "#039;"}

\* no literal <, > or ", and every & begins an entity
Escaped(t) ==
  \A i \in 1..Len(t) :
    /\ t[i] \notin {"<", ">", Q}
    /\ t[i] = "&" => (i < Len(t) /\ t[i + 1] \in EntityTails)

EntityChar(tail) ==
  CASE tail = "amp;" -> "&"
    [] tail = "lt;" -> "<"
    [] tail = "gt;" -> ">"
    [] tail = "quot;" -> Q
    [] tail = "#039;" -> "'"

\* what a reader of the HTML sees: each entity read once
RECURSIVE Decode(_)
Decode(t) ==
  IF t = <<>> THEN <<>>
  ELSE IF t[1] = "&" /\ Len(t) >= 2 /\ t[2] \in EntityTails
       THEN <<EntityChar(t[2])>> \o Decode(SubSeq(t, 3, Len(t)))
       ELSE <<t[1]>> \o Decode(Tail(t))

EscapedOnce(t, v) == Escaped(t) /\ Decode(t) = ToString(v)

\* C6: every user-supplied value in the HTML body (cycle label, package
\* label, name, email, phone, experience, goals, message) is there in escaped
\* form only: no literal <, > or ", every & begins an entity, and each value
\* is escaped once, so that reading the entities gives the value back
C6_HtmlEscaped ==
  \A l \in Lanes : \A i \in 1..Len(mail[l]) :
    LET h == mail[l][i].html
        f == sub[l]
    IN /\ \A n \in {"cycleLabel", "packageLabel", "fullName", "userEmail", "phone", "experience"} :
            EscapedOnce(h[n], f[n])
       /\ \A n \in {"goals", "message"} :
            /\ Truthy(GetProp(payload[l], n)) => (Len(h[n]) = 1 /\ f[n] = GetProp(payload[l], n))
            /\ \A j \in 1..Len(h[n]) : EscapedOnce(h[n][j], f[n])

C6_Witness ==
  /\ mail["text"] # <<>>
  /\ sub["text"].goals = Str(<<"<", "&", ">", Q, "'">>)
  /\ mail["text"][1].html.goals = <<<<"&", "lt;", "&", "amp;", "&", "gt;", "&", "quot;", "&", "#039;">>>>
  /\ mail["text"][1].html.fullName = <<"&", "lt;", "b", "&", "gt;", "Al">>

\* C7: a request delivered as the JSON text of b gives the same submission,
\* the same validation result, the same subject and HTML, the same external
\* calls and the same response as the request delivered as b itself
C7_TextLikeObject ==
  (pc["text"] = "done" /\ pc["object"] = "done") =>
    /\ payload["text"] = payload["object"]
    /\ sub["text"] = sub["object"]
    /\ missing["text"] = missing["object"]
    /\ calls["text"] = calls["object"]
    /\ mail["text"] = mail["object"]
    /\ res["text"] = res["object"]

C7_Witness ==
  /\ pc["text"] = "done"
  /\ pc["object"] = "done"
  /\ body["text"] # body["object"]
  /\ GetProp(request, "email") = Str(<<"al", Q, "@x.de">>)
  /\ GetProp(request, "packageLabel") = Str(<<"3 Classes ", BS, ">", "50">>)
  /\ res["text"] = <<Response(200, SuccessBody)>>

AllFiveMissing ==
  Response(400, FailureBody(<<"Missing required fields: ", "fullName", ", ", "email", ", ",
                              "phone", ", ", "cycle", ", ", "package">>))

\* C8: a text body that cannot be decoded is read as an empty record: the
\* invocation answers 400 naming all five required fields, never a parse
\* error or a 500, and makes no external call
C8_UndecodableText ==
  \A l \in Lanes :
    (Handled(l) /\ TypeofString(body[l]) /\ ~JSONParse(body[l].text).ok) =>
      /\ payload[l] = EmptyObj
      /\ pc[l] = "done"
      /\ res[l] = <<AllFiveMissing>>
      /\ calls[l] = <<>>

C8_Witness ==
  /\ pc["text"] = "done"
  /\ body["text"] = Str(<<"{", Q, "email", Q, ":", Q, "al@x.de", Q>>)
  /\ res["text"] = <<AllFiveMissing>>

Chain(p, first, second) == IF Present(p, first) THEN GetProp(p, first) ELSE GetProp(p, second)

\* C9: for a submission that passed validation the rendered cycle label is
\* cycleLabel when present and else cycle, the package label packageLabel and
\* else package, the phone phone and else whatsapp, the name fullName and
\* else name; none of the five required fields is rendered as the default
\* "Unknown"
C9_FallbackChains ==
  \A l \in Lanes : \A i \in 1..Len(mail[l]) :
    LET h == mail[l][i].html
        p == payload[l]
    IN /\ h.cycleLabel = escapeHtml(Chain(p, "cycleLabel", "cycle"))
       /\ h.packageLabel = escapeHtml(Chain(p, "packageLabel", "package"))
       /\ h.phone = escapeHtml(Chain(p, "phone", "whatsapp"))
       /\ h.fullName = escapeHtml(Chain(p, "fullName", "name"))
       /\ h.userEmail = escapeHtml(GetProp(p, "email"))
       /\ mail[l][i].subject = <<"SBA Booking Request", " -- ">> \o ToString(Chain(p, "fullName", "name"))
                                 \o <<" -- ">> \o ToString(Chain(p, "cycleLabel", "cycle"))
       /\ \A n \in {"cycleLabel", "packageLabel", "phone", "fullName", "userEmail"} : h[n] # <<"Unknown">>

C9_Witness ==
  /\ mail["object"] # <<>>
  /\ ~Present(payload["object"], "cycleLabel") /\ Present(payload["object"], "cycle")
  /\ ~Present(payload["object"], "packageLabel")
  /\ ~Present(payload["object"], "phone") /\ Present(payload["object"], "whatsapp")
  /\ ~Present(payload["object"], "fullName")
  /\ mail["object"][1].html.cycleLabel = <<"cycle-1">>
  /\ mail["object"][1].html.phone = <<"49">>

\* the value req.body decodes to
Decoded(l) == ParseBody(body[l])

Structured(v) == v.kind \in {"obj", "arr"}

HasStructuredPayload(d) == Structured(d) /\ Structured(GetProp(d, "payload"))

\* C10 as stated: the submission source is the nested "payload" field exactly
\* when the decoded body has one that is a structured object, and the
\* top-level decoded value otherwise; it is the empty mapping when the decoded
\* body is absent or null
C10_AsStated ==
  \A l \in Lanes : Handled(l) =>
    payload[l] = IF HasStructuredPayload(Decoded(l)) THEN GetProp(Decoded(l), "payload")
                 ELSE IF Nullish(Decoded(l)) THEN EmptyObj
                 ELSE Decoded(l)

\* C10, amended: as stated, the empty mapping standing in for every falsy
\* decoded body: absent, null, false, 0 and the empty string
C10_PayloadSource ==
  \A l \in Lanes : Handled(l) =>
    payload[l] = IF HasStructuredPayload(Decoded(l)) THEN GetProp(Decoded(l), "payload")
                 ELSE IF Nullish(Decoded(l)) \/ Decoded(l) \in {Bool(FALSE), Num(<<"0">>), Str(<<>>)} THEN EmptyObj
                 ELSE Decoded(l)

C10_Witness ==
  /\ Handled("text")
  /\ Handled("object")
  /\ GetProp(Decoded("text"), "payload") = Str(<<"x">>)
  /\ Present(Decoded("text"), "fullName")
  /\ payload["text"] = Decoded("text")
  /\ payload["text"] = request

ConfigMissing == \E n \in RequiredEnv(variant) : ~Truthy(env[n])

\* the texts an underlying failure can surface as: the message of the thrown
\* value and its string form
FailureTexts(o) == IF o.state = "rejected" THEN {o.v.text, ToString(o.v)} ELSE {}

\* C11 as stated: in the SMTP variant as in the OAuth2 variant an invocation
\* that passes validation while required transport configuration is missing
\* is answered with one response, of status 500, whose error text is not the
\* text of the underlying failure
C11_AsStated ==
  \A l \in Lanes : (pc[l] = "done" /\ Lacking(payload[l]) = <<>> /\ ConfigMissing) =>
    /\ Len(res[l]) = 1
    /\ res[l][1].status = 500
    /\ \A t \in FailureTexts(tokenResult) \cup FailureTexts(sendResult) :
         res[l][1].json # FailureBody(t)

\* the token exchange as observed: it threw, or it yielded no usable token
TokenFailed ==
  /\ tokenResult # Pending
  /\ ~(tokenResult.state = "resolved" /\ tokenResult.v.kind = "obj" /\ Present(tokenResult.v, "token"))

\* the external calls one invocation may have made so far
CallOrder(l) ==
  calls[l] \in (IF variant = "oauth2"
                THEN {<<>>, <<"getAccessToken">>, <<"getAccessToken", "sendMail">>}
                ELSE {<<>>, <<"sendMail">>})

NoCallAfterFailure(l) ==
  /\ (Handled(l) /\ Lacking(payload[l]) # <<>>) => calls[l] = <<>>
  /\ (Handled(l) /\ variant = "oauth2" /\ ConfigMissing) => calls[l] = <<>>
  /\ TokenFailed => ~SendAttempted(l)

\* C12: no retries: in every invocation of either variant the send is
\* attempted at most once and the token exchange at most once, the token
\* exchange precedes the send, a failed validation, configuration check or
\* token exchange is followed by no external call, and once the invocation
\* has answered (a failed send included) it makes no further call
C12_NoRetries ==
  /\ [](\A l \in Lanes : CallOrder(l) /\ Len(mail[l]) <= 1 /\ NoCallAfterFailure(l))
  /\ [][\A l \in Lanes : res[l] # <<>> => (calls'[l] = calls[l] /\ mail'[l] = mail[l])]_vars

C12_Witness ==
  /\ variant = "oauth2"
  /\ pc["object"] = "done"
  /\ calls["object"] = <<"getAccessToken", "sendMail">>
  /\ sendResult.state = "rejected"
  /\ res["object"][1].status = 500
  /\ pc["text"] = "done"
  /\ calls["text"] = <<"getAccessToken", "sendMail">>

\* C13: every invocation of either variant whose external calls complete
\* eventually returns with exactly one response; an invocation never has more
\* than one response and has one exactly when it has returned; the status of
\* a response is 200, 400 or 500 and its body has ok = true exactly when the
\* status is 200
C13_OneResponse ==
  /\ [](\A l \in Lanes :
          /\ Len(res[l]) <= 1
          /\ pc[l] = "done" <=> Len(res[l]) = 1
          /\ \A i \in 1..Len(res[l]) :
               /\ res[l][i].status \in {200, 400, 500}
               /\ GetProp(res[l][i].json, "ok") \in {Bool(TRUE), Bool(FALSE)}
               /\ GetProp(res[l][i].json, "ok") = Bool(TRUE) <=> res[l][i].status = 200)
  /\ \A l \in Lanes : (pc[l] = "start") ~> (pc[l] = "done" /\ Len(res[l]) = 1)

C13_Witness ==
  /\ variant = "oauth2"
  /\ pc["text"] = "done"
  /\ tokenResult.state = "resolved"
  /\ sendResult.state = "rejected"
  /\ sendResult.v.kind = "str"
  /\ res["text"] = <<Response(500, FailureBody(<<"socket closed">>))>>
  /\ pc["object"] = "done"
  /\ Len(res["object"]) = 1

====
